---------------------------- MODULE Spec2Model ----------------------------
(***************************************************************************)
(* ResiboKo: the record store (App.tsx), the extraction adapter            *)
(* (geminiService.ts), the summarization engine, the exports and the sync  *)
(* of TransactionHistory and the insights panel (both in                   *)
(* components/AIAnalytics.tsx) as one state machine.                       *)
(*                                                                         *)
(* Values.  A JavaScript string field is a TLA+ string; null and undefined *)
(* are the two reserved strings NullS and UndefS, "" is the empty string.  *)
(* A number field is the record Num(n); NullAmt and UndefAmt are its null  *)
(* and undefined.  A date string "YYYY-MM-DD" is Iso(day) with day the     *)
(* number of days since 1970-01-01; NullDate, UndefDate and EmptyDate are  *)
(* null, undefined and "".  An instant is a count of ticks since the epoch,*)
(* TicksPerDay ticks to the day, and Date.now() reads the tick counter.    *)
(***************************************************************************)
EXTENDS Integers, Sequences, FiniteSets, TLC

VARIABLES
    savedReceipts,    \* App state: the saved list
    storage,          \* localStorage entry 'savedReceipts'
    pc,               \* where the mount of App stands
    pendingLoad,      \* the state update queued by the load effect
    receiptData,      \* App state: the record under review
    isLoading,        \* App state
    error,            \* App state
    manualEntryData,  \* App state: the initial data of the open entry form
    showCamera,       \* App state
    inflight,         \* analyzeReceipt calls awaiting their response
    activeFilter,     \* TransactionHistory state: the selector
    now,              \* the clock, in ticks
    tz,               \* local time minus UTC, in ticks
    lastOp,           \* history: the operation of the last step and its argument
    boot,             \* history: the list the previous session ended with
    renderedAt,       \* TransactionHistory: the clock value filteredData was computed at
    query,            \* AIAnalytics state: the text of the query box
    analysis,         \* AIAnalytics state: the answer on display
    aiLoading,        \* AIAnalytics state: isLoading
    aiError,          \* AIAnalytics state: error
    aiPending,        \* getSpendingAnalysis calls awaiting their response
    syncStatus,       \* TransactionHistory state
    syncFetches,      \* sync requests awaiting their response
    syncTimers,       \* status-reset timers that have not fired yet
    lastExport        \* history: the last file handed to the browser

storeVars == <<savedReceipts, storage, pc, pendingLoad>>
uiVars    == <<receiptData, isLoading, error, manualEntryData, showCamera, inflight>>
envVars   == <<now, tz>>
viewVars  == <<activeFilter, renderedAt>>
panelVars == <<query, analysis, aiLoading, aiError, aiPending, syncStatus, syncFetches,
               syncTimers, lastExport>>
vars      == <<savedReceipts, storage, pc, pendingLoad, receiptData, isLoading,
               error, manualEntryData, showCamera, inflight, activeFilter, now,
               tz, lastOp, boot, renderedAt, panelVars>>

----------------------------------------------------------------------------
(* Bounds *)

MaxReceipts == 2

MaxClock == 1

(* requests of one kind a session has outstanding at a time *)
MaxRequests == 2

TicksPerDay == 3

----------------------------------------------------------------------------
(* JavaScript values *)

NullS == "<null>"

UndefS == "<undefined>"

Truthy(s) == s \notin {NullS, UndefS, ""}

Num(n) == [tag |-> "number", n |-> n]

NullAmt == [tag |-> "null", n |-> 0]

UndefAmt == [tag |-> "undefined", n |-> 0]

Iso(d) == [tag |-> "iso", day |-> d]

NullDate == [tag |-> "null", day |-> 0]

UndefDate == [tag |-> "undefined", day |-> 0]

EmptyDate == [tag |-> "empty", day |-> 0]

TruthyDate(d) == d.tag = "iso"

NoRecord == [none |-> TRUE]

ReceiptData(name, amount, date, category, client, purpose) ==
    [transaction_name |-> name, total_amount |-> amount,
     transaction_date |-> date, category |-> category,
     client_or_prospect |-> client, purpose |-> purpose]

DataKeys == {"transaction_name", "total_amount", "transaction_date", "category",
             "client_or_prospect", "purpose"}

SavedKeys == DataKeys \cup {"id"}

----------------------------------------------------------------------------
(* The calendar: days since 1970-01-01 <-> (year, month, day), the civil    *)
(* calendar Date implements.  Months are 1..12 here, 0..11 in JavaScript.   *)

DaysFromCivil(y, m, d) ==
    LET yy  == IF m <= 2 THEN y - 1 ELSE y
        era == yy \div 400
        yoe == yy - era * 400
        mp  == IF m > 2 THEN m - 3 ELSE m + 9
        doy == (153 * mp + 2) \div 5 + d - 1
        doe == yoe * 365 + yoe \div 4 - yoe \div 100 + doy
    IN  era * 146097 + doe - 719468

CivilFromDays(n) ==
    LET z   == n + 719468
        era == z \div 146097
        doe == z - era * 146097
        yoe == (doe - doe \div 1460 + doe \div 36524 - doe \div 146096) \div 365
        doy == doe - (365 * yoe + yoe \div 4 - yoe \div 100)
        mp  == (5 * doy + 2) \div 153
        d   == doy - (153 * mp + 2) \div 5 + 1
        m   == IF mp < 10 THEN mp + 3 ELSE mp - 9
        y   == yoe + era * 400 + (IF m <= 2 THEN 1 ELSE 0)
    IN  [year |-> y, month |-> m, date |-> d]

GetFullYear(n) == CivilFromDays(n).year

GetMonth(n) == CivilFromDays(n).month

GetDate(n) == CivilFromDays(n).date

GetDay(n) == (n + 4) % 7

LocalDay(t) == (t + tz) \div TicksPerDay

UtcDay(t) == t \div TicksPerDay

LocalMidnight(n) == n * TicksPerDay - tz

DateParse(d) == d.day * TicksPerDay

TodayIso == Iso(UtcDay(now))

----------------------------------------------------------------------------
(* localStorage and JSON.  The entry is missing, the empty string, text     *)
(* JSON.parse throws on, JSON text of a value that is no array, or JSON     *)
(* text of an array.  JSON.stringify omits a property whose value is        *)
(* undefined; reading a property the parsed object lacks gives undefined.   *)

IsUndefined(k, v) ==
    CASE k \in {"total_amount", "transaction_date"} -> v.tag = "undefined"
      [] k = "id" -> FALSE
      [] OTHER -> v = UndefS

UndefinedOf(k) ==
    CASE k = "total_amount" -> UndefAmt
      [] k = "transaction_date" -> UndefDate
      [] k = "id" -> 0
      [] OTHER -> UndefS

ObjectToJson(r) == [k \in {j \in DOMAIN r : ~IsUndefined(j, r[j])} |-> r[k]]

ObjectFromJson(o) == [k \in SavedKeys |-> IF k \in DOMAIN o THEN o[k] ELSE UndefinedOf(k)]

JSON_stringify(list) == [i \in 1..Len(list) |-> ObjectToJson(list[i])]

JSON_parse(items) == [i \in 1..Len(items) |-> ObjectFromJson(items[i])]

StorageMissing == [kind |-> "missing", items |-> <<>>]

StorageEmptyString == [kind |-> "empty", items |-> <<>>]

StorageUnparseable == [kind |-> "unparseable", items |-> <<>>]

StorageNonArray == [kind |-> "nonarray", items |-> <<>>]

SetItem(list) == [kind |-> "array", items |-> JSON_stringify(list)]

NoUpdate == [kind |-> "none"]

(* a persist effect whose dependency list is empty: it never runs again *)
PersistEffectOnceOnly(list) == storage

(* the persist effect of a render whose savedReceipts is list *)
PersistEffect(list) == SetItem(list)

----------------------------------------------------------------------------
(* handleSaveReceipt: the guard, the new record, the sort *)

NoError == [text |-> "<null>"]

IncompleteMsg == [text |-> "Cannot save incomplete receipt data."]

FailedMsg == [text |-> "Failed to analyze the receipt. Please try again."]

YearMsg(receiptYear, currentYear) ==
    [text |-> "This receipt is from ${receiptYear}. Only transactions for the current year (${currentYear}) are allowed.",
     receiptYear |-> receiptYear, currentYear |-> currentYear]

Rejected(data) ==
    \/ ~Truthy(data.transaction_name)
    \/ data.total_amount.tag = "null"
    \/ ~TruthyDate(data.transaction_date)
    \/ ~Truthy(data.category)

NewReceipt(data, id) ==
    [k \in SavedKeys |-> IF k = "id" THEN id ELSE data[k]]

(* the comparator with its operands swapped *)
CompareAscending(a, b) == DateParse(a.transaction_date) - DateParse(b.transaction_date)

Compare(a, b) == DateParse(b.transaction_date) - DateParse(a.transaction_date)

RECURSIVE InsertSorted(_, _)
InsertSorted(x, s) ==
    IF s = <<>> THEN <<x>>
    ELSE IF Compare(Head(s), x) <= 0 THEN <<Head(s)>> \o InsertSorted(x, Tail(s))
    ELSE <<x>> \o s

RECURSIVE SortPrefix(_, _)
SortPrefix(s, n) == IF n = 0 THEN <<>> ELSE InsertSorted(s[n], SortPrefix(s, n - 1))

Sort(s) == SortPrefix(s, Len(s))

InsertedLast(prev, newReceipt) == Sort(prev \o <<newReceipt>>)

Inserted(prev, newReceipt) == Sort(<<newReceipt>> \o prev)

(* the filter predicate inverted *)
KeepOnDeleteInverted(receipt, id) == receipt.id = id

KeepOnDelete(receipt, id) == receipt.id # id

Filtered(prev, id) == SelectSeq(prev, LAMBDA receipt : KeepOnDelete(receipt, id))

----------------------------------------------------------------------------
(* History variables' values *)

Other(n) == [name |-> n]

NoBoot == [known |-> FALSE]

NoExport == [kind |-> "none"]

(* the query box and the answer area of AIAnalytics when empty *)
NoText == ""

NoAnswer == [of |-> "", text |-> ""]

Booted(restarted, kind, list) ==
    [known |-> TRUE, restarted |-> restarted, kind |-> kind, list |-> list]

----------------------------------------------------------------------------
(* Mount of App: the first render, then the load effect and the persist     *)
(* effect of that render (which closes over the initial empty list), then   *)
(* the render of the update the load effect queued, whose persist effect    *)
(* runs right after it.                                                     *)

LoadEffect ==
    /\ pc = "mounted"
    /\ pendingLoad' =
         CASE storage.kind \in {"missing", "empty"} -> NoUpdate
           [] storage.kind = "unparseable" -> NoUpdate
           [] storage.kind = "nonarray" -> [kind |-> "nonarray"]
           [] OTHER -> [kind |-> "array", list |-> JSON_parse(storage.items)]
    /\ pc' = "loaded"
    /\ lastOp' = Other("loadEffect")
    /\ UNCHANGED <<savedReceipts, storage, uiVars, viewVars, panelVars,
                   envVars, boot>>

PersistEffectOnMount ==
    /\ pc = "loaded"
    /\ storage' = SetItem(savedReceipts)
    /\ pc' = "effectsRun"
    /\ lastOp' = Other("persistEffect")
    /\ UNCHANGED <<savedReceipts, pendingLoad, uiVars, viewVars, panelVars,
                   envVars, boot>>

CommitLoaded ==
    /\ pc = "effectsRun"
    /\ CASE pendingLoad.kind = "none" ->
              /\ pc' = "ready"
              /\ UNCHANGED <<savedReceipts, storage, renderedAt>>
         [] pendingLoad.kind = "nonarray" ->
              \* TransactionHistory reads receipts.length and calls .map: the
              \* render throws and React unmounts the tree
              /\ pc' = "crashed"
              /\ UNCHANGED <<savedReceipts, storage, renderedAt>>
         [] OTHER ->
              /\ pc' = "ready"
              /\ savedReceipts' = pendingLoad.list
              /\ storage' = PersistEffect(pendingLoad.list)
              /\ renderedAt' = now
    /\ pendingLoad' = NoUpdate
    /\ lastOp' = Other("commitLoaded")
    /\ UNCHANGED <<uiVars, activeFilter, panelVars, envVars, boot>>

(* The page is closed and opened again: component state starts over, the    *)
(* storage entry stays.  The two mount effects run in one task.  boot keeps *)
(* the list of the session that ends here; a session closed before its      *)
(* effects ran leaves boot as it was.                                       *)
Restart ==
    /\ pc # "loaded"
    /\ pc' = "mounted"
    /\ savedReceipts' = <<>>
    /\ pendingLoad' = NoUpdate
    /\ receiptData' = NoRecord
    /\ isLoading' = FALSE
    /\ error' = NoError
    /\ manualEntryData' = NoRecord
    /\ showCamera' = FALSE
    /\ inflight' = 0
    /\ activeFilter' = "All"
    /\ renderedAt' = now
    /\ query' = NoText
    /\ analysis' = NoAnswer
    /\ aiLoading' = FALSE
    /\ aiError' = NoError
    /\ aiPending' = <<>>
    /\ syncStatus' = "idle"
    /\ syncFetches' = 0
    /\ syncTimers' = 0
    /\ lastExport' = NoExport
    /\ boot' = IF pc = "mounted" THEN boot
                ELSE Booted(TRUE, storage.kind, savedReceipts)
    /\ lastOp' = Other("restart")
    /\ UNCHANGED <<storage, envVars>>

Tick(t0) ==
    /\ now < t0 + MaxClock
    /\ now' = now + 1
    /\ lastOp' = Other("tick")
    /\ UNCHANGED <<storeVars, uiVars, viewVars, panelVars, tz, boot>>

----------------------------------------------------------------------------
(* Saving and deleting *)

(* handleSaveReceipt(data) and the persist effect of the render it causes *)
HandleSaveReceipt(data) ==
    IF Rejected(data)
    THEN /\ error' = IncompleteMsg
         /\ UNCHANGED <<savedReceipts, storage, receiptData, boot, renderedAt>>
    ELSE /\ savedReceipts' = Inserted(savedReceipts, NewReceipt(data, now))
         /\ receiptData' = NoRecord
         /\ storage' = PersistEffect(savedReceipts')
         /\ renderedAt' = now
         /\ boot' = NoBoot
         /\ UNCHANGED error

SaveFromReview(data) ==
    /\ pc = "ready"
    /\ receiptData # NoRecord
    /\ ~isLoading
    /\ HandleSaveReceipt(data)
    /\ lastOp' = [name |-> "save", data |-> data]
    /\ UNCHANGED <<pc, pendingLoad, isLoading, manualEntryData, showCamera,
                   inflight, activeFilter, panelVars, envVars>>

(* handleSaveFromManual(data) *)
SaveFromManual(data) ==
    /\ pc = "ready"
    /\ manualEntryData # NoRecord
    /\ HandleSaveReceipt(data)
    /\ manualEntryData' = NoRecord
    /\ lastOp' = [name |-> "save", data |-> data]
    /\ UNCHANGED <<pc, pendingLoad, isLoading, showCamera, inflight,
                   activeFilter, panelVars, envVars>>

(* handleDeleteReceipt(id) and the persist effect of the render it causes *)
Delete(id) ==
    /\ pc = "ready"
    /\ savedReceipts' = Filtered(savedReceipts, id)
    /\ storage' = PersistEffect(savedReceipts')
    /\ renderedAt' = now
    /\ boot' = NoBoot
    /\ lastOp' = [name |-> "delete", id |-> id,
                  removed |-> Len(savedReceipts) - Len(savedReceipts')]
    /\ UNCHANGED <<pc, pendingLoad, uiVars, activeFilter, panelVars, envVars>>

----------------------------------------------------------------------------
(* The extraction adapter: validation of the model's JSON response.  A raw  *)
(* response is a record of the six fields as JSON.parse returned them;      *)
(* total_amount may also carry the tag "string" (a number sent as text).    *)

categories == {"Food & Drink", "Groceries", "Transportation", "Shopping", "Utilities",
               "Entertainment", "Health & Wellness", "Travel", "Other"}

OrNull(s) == IF Truthy(s) THEN s ELSE NullS

ValidCategoryTruthy(c) == IF Truthy(c) THEN c ELSE "Other"

ValidCategory(c) == IF Truthy(c) /\ c \in categories THEN c ELSE "Other"

ValidAmount(a) == IF a.tag = "number" THEN a ELSE NullAmt

analyzeReceipt(raw) ==
    ReceiptData(OrNull(raw.transaction_name),
                ValidAmount(raw.total_amount),
                IF TruthyDate(raw.transaction_date) THEN raw.transaction_date ELSE NullDate,
                ValidCategory(raw.category),
                OrNull(raw.client_or_prospect),
                OrNull(raw.purpose))

analyzeTransactionFromVoice(raw, today) ==
    ReceiptData(OrNull(raw.transaction_name),
                ValidAmount(raw.total_amount),
                IF TruthyDate(raw.transaction_date) THEN raw.transaction_date ELSE today,
                ValidCategory(raw.category),
                OrNull(raw.client_or_prospect),
                OrNull(raw.purpose))

----------------------------------------------------------------------------
(* The capture card of App *)

agentPresets ==
    { [transaction_name |-> "Parking", total_amount |-> Num(50),
       category |-> "Transportation", purpose |-> "Parking"],
      [transaction_name |-> "Toll", total_amount |-> Num(100),
       category |-> "Transportation", purpose |-> "Toll"],
      [transaction_name |-> "Client Coffee", total_amount |-> Num(120),
       category |-> "Food & Drink", purpose |-> "Client Coffee"] }

ChooserShown == pc = "ready" /\ receiptData = NoRecord /\ ~isLoading

(* handlePresetClick(preset.data) *)
PresetClick(p) ==
    /\ ChooserShown
    /\ manualEntryData' = ReceiptData(p.transaction_name, p.total_amount, TodayIso,
                                      p.category, UndefS, p.purpose)
    /\ lastOp' = Other("preset")
    /\ UNCHANGED <<storeVars, receiptData, isLoading, error, showCamera,
                   inflight, viewVars, panelVars, envVars, boot>>

(* the Manual / Voice Entry button *)
OpenManualEntry ==
    /\ ChooserShown
    /\ manualEntryData' = ReceiptData(UndefS, UndefAmt, TodayIso, UndefS, UndefS, UndefS)
    /\ lastOp' = Other("openManual")
    /\ UNCHANGED <<storeVars, receiptData, isLoading, error, showCamera,
                   inflight, viewVars, panelVars, envVars, boot>>

(* ManualEntry onClose *)
CloseManualEntry ==
    /\ pc = "ready"
    /\ manualEntryData # NoRecord
    /\ manualEntryData' = NoRecord
    /\ lastOp' = Other("closeManual")
    /\ UNCHANGED <<storeVars, receiptData, isLoading, error, showCamera,
                   inflight, viewVars, panelVars, envVars, boot>>

(* handleDiscard: the Try Again button and ResultDisplay's onDiscard *)
Discard ==
    /\ pc = "ready"
    /\ ~isLoading
    /\ error # NoError \/ receiptData # NoRecord
    /\ receiptData' = NoRecord
    /\ error' = NoError
    /\ lastOp' = Other("discard")
    /\ UNCHANGED <<storeVars, isLoading, manualEntryData, showCamera, inflight,
                   viewVars, panelVars, envVars, boot>>

(* handleImageSelect(file) up to its await *)
StartImageSelect ==
    /\ isLoading' = TRUE
    /\ error' = NoError
    /\ receiptData' = NoRecord
    /\ inflight' = inflight + 1

(* ImageUploader onImageSelect *)
SelectImage(maxInflight) ==
    /\ ChooserShown
    /\ inflight < maxInflight
    /\ StartImageSelect
    /\ lastOp' = Other("selectImage")
    /\ UNCHANGED <<storeVars, manualEntryData, showCamera, viewVars,
                   panelVars, envVars, boot>>

(* the Use Camera button of the chooser *)
OpenCamera ==
    /\ ChooserShown
    /\ showCamera' = TRUE
    /\ lastOp' = Other("openCamera")
    /\ UNCHANGED <<storeVars, receiptData, isLoading, error, manualEntryData,
                   inflight, viewVars, panelVars, envVars, boot>>

(* CameraCapture onClose *)
CloseCamera ==
    /\ pc = "ready"
    /\ showCamera
    /\ showCamera' = FALSE
    /\ lastOp' = Other("closeCamera")
    /\ UNCHANGED <<storeVars, receiptData, isLoading, error, manualEntryData,
                   inflight, viewVars, panelVars, envVars, boot>>

(* CameraCapture onCapture: the camera is drawn whenever showCamera is set, *)
(* whatever isLoading is                                                    *)
CameraCapture(maxInflight) ==
    /\ pc = "ready"
    /\ showCamera
    /\ inflight < maxInflight
    /\ showCamera' = FALSE
    /\ StartImageSelect
    /\ lastOp' = Other("cameraCapture")
    /\ UNCHANGED <<storeVars, manualEntryData, viewVars, panelVars, envVars, boot>>

(* handleImageSelect after analyzeReceipt resolved with the validated data *)
ImageResolve(raw) ==
    /\ pc = "ready"
    /\ inflight > 0
    /\ inflight' = inflight - 1
    /\ LET data == analyzeReceipt(raw)
           receiptYear == GetFullYear(LocalDay(DateParse(data.transaction_date)))
           currentYear == GetFullYear(LocalDay(now))
       IN  /\ IF TruthyDate(data.transaction_date) /\ receiptYear # currentYear
              THEN /\ error' = YearMsg(receiptYear, currentYear)
                   /\ UNCHANGED receiptData
              ELSE /\ receiptData' = data
                   /\ UNCHANGED error
           /\ lastOp' = [name |-> "analyzeReceipt", raw |-> raw, out |-> data]
    /\ isLoading' = FALSE
    /\ UNCHANGED <<storeVars, manualEntryData, showCamera, viewVars,
                   panelVars, envVars, boot>>

(* handleImageSelect after analyzeReceipt threw: transport error or JSON.parse *)
ImageReject ==
    /\ pc = "ready"
    /\ inflight > 0
    /\ inflight' = inflight - 1
    /\ error' = FailedMsg
    /\ isLoading' = FALSE
    /\ lastOp' = Other("imageFailed")
    /\ UNCHANGED <<storeVars, receiptData, manualEntryData, showCamera,
                   viewVars, panelVars, envVars, boot>>

(* analyzeTransactionFromVoice: the request and its response; today is read *)
(* when the request is built                                                *)
VoiceExtract(raw) ==
    /\ pc = "ready"
    /\ manualEntryData # NoRecord
    /\ lastOp' = [name |-> "analyzeVoice", raw |-> raw,
                  out |-> analyzeTransactionFromVoice(raw, TodayIso)]
    /\ UNCHANGED <<storeVars, uiVars, viewVars, panelVars, envVars, boot>>

----------------------------------------------------------------------------
(* The summarization engine: filteredData of TransactionHistory.  A window  *)
(* start is an instant; a record's date is the instant Date parses it to,   *)
(* midnight UTC of that day.                                                *)

Filters == {"Daily", "Weekly", "Monthly", "Quarterly", "Yearly", "All"}

(* Date.setDate(k) on day n: day k of n's month, running over its ends *)
SetDate(n, k) == n - GetDate(n) + k

(* end is 23:59:59.999 of its day: an instant is at or before it exactly    *)
(* when it is before the midnight that follows, which is what endNext holds *)
getWeekRange(t) ==
    LET date  == LocalDay(t)
        day   == GetDay(date)
        diff  == GetDate(date) - day + (IF day = 0 THEN -6 ELSE 1)
        start == SetDate(date, diff)
        end   == SetDate(start, GetDate(start) + 6)
    IN  [start |-> LocalMidnight(start), endNext |-> LocalMidnight(end + 1)]

getQuarterRange(t) ==
    LET date    == LocalDay(t)
        quarter == (GetMonth(date) - 1) \div 3
        start   == DaysFromCivil(GetFullYear(date), quarter * 3 + 1, 1)
    IN  [start |-> LocalMidnight(start)]

(* the filter callback of each selector *)
InWindow(r, filter, t) ==
    LET d == DateParse(r.transaction_date)
    IN  CASE filter = "Daily" -> d >= LocalMidnight(LocalDay(t))
          [] filter = "Weekly" ->
               d >= getWeekRange(t).start /\ d < getWeekRange(t).endNext
          [] filter = "Monthly" ->
               d >= LocalMidnight(DaysFromCivil(GetFullYear(LocalDay(t)),
                                                GetMonth(LocalDay(t)), 1))
          [] filter = "Quarterly" -> d >= getQuarterRange(t).start
          [] filter = "Yearly" ->
               d >= LocalMidnight(DaysFromCivil(GetFullYear(LocalDay(t)), 1, 1))
          [] OTHER -> TRUE

FilterReceipts(receipts, filter, t) ==
    SelectSeq(receipts, LAMBDA r : InWindow(r, filter, t))

(* receipt.total_amount || 0 *)
AmountOrZero(a) == IF a.tag = "number" THEN a.n ELSE 0

(* receipt.category || 'Uncategorized' *)
CategoryOrUncategorized(c) == IF Truthy(c) THEN c ELSE "Uncategorized"

AccumulateOverwriting(acc, receipt) ==
    LET category == CategoryOrUncategorized(receipt.category)
        amount   == AmountOrZero(receipt.total_amount)
    IN  IF \E i \in 1..Len(acc) : acc[i].category = category
        THEN [i \in 1..Len(acc) |->
                IF acc[i].category = category
                THEN [category |-> category, total |-> amount]
                ELSE acc[i]]
        ELSE Append(acc, [category |-> category, total |-> amount])

(* one step of the reduce: acc is the summary object as the sequence of its *)
(* entries in the order the keys were first set, which is the order         *)
(* Object.entries lists them in (no category here is an array index)        *)
Accumulate(acc, receipt) ==
    LET category == CategoryOrUncategorized(receipt.category)
        amount   == AmountOrZero(receipt.total_amount)
    IN  IF \E i \in 1..Len(acc) : acc[i].category = category
        THEN [i \in 1..Len(acc) |->
                IF acc[i].category = category
                THEN [category |-> category, total |-> acc[i].total + amount]
                ELSE acc[i]]
        ELSE Append(acc, [category |-> category, total |-> 0 + amount])

RECURSIVE Reduce(_, _)
Reduce(filtered, n) ==
    IF n = 0 THEN <<>> ELSE Accumulate(Reduce(filtered, n - 1), filtered[n])

Summary(filtered) == Reduce(filtered, Len(filtered))

FilteredData(receipts, filter, t) ==
    IF filter # "All"
    THEN Summary(FilterReceipts(receipts, filter, t))
    ELSE FilterReceipts(receipts, filter, t)

(* a filter button of TransactionHistory, and the filteredData of the       *)
(* render it causes: useMemo computes it anew, reading the clock, when the   *)
(* selector changed                                                         *)
SetFilter(f) ==
    /\ pc = "ready"
    /\ activeFilter' = f
    /\ renderedAt' = IF f # activeFilter THEN now ELSE renderedAt
    /\ lastOp' = [name |-> "setFilter", filter |-> f,
                  filteredData |-> FilteredData(savedReceipts, f, renderedAt')]
    /\ UNCHANGED <<storeVars, uiVars, envVars, boot, panelVars>>

----------------------------------------------------------------------------
(* Text.  A text is the sequence of its characters, where a run of          *)
(* characters other than the comma, the double quote, the line feed, # and  *)
(* % stands as one element.                                                 *)

Comma == ","

Quote == "\""

LineFeed == "\n"

Hash == "#"

Percent == "%"

(* the characters of a string value *)
Chars(s) ==
    CASE s = "" -> <<>>
      [] s = "Lunch, Makati" -> <<"Lunch", Comma, " Makati">>
      [] s = "the \"big\" deal" -> <<"the ", Quote, "big", Quote, " deal">>
      [] s = "Unit #5" -> <<"Unit ", Hash, "5">>
      [] s = "line 1\nline 2" -> <<"line 1", LineFeed, "line 2">>
      [] s = "50% off" -> <<"50", Percent, " off">>
      [] OTHER -> <<s>>

RECURSIVE Concat(_, _)
(* the texts of a sequence, one after the other *)
Concat(texts, n) == IF n = 0 THEN <<>> ELSE Concat(texts, n - 1) \o texts[n]

(* Array.prototype.join *)
Join(texts, sep) ==
    Concat([i \in 1..Len(texts) |-> IF i = 1 THEN texts[i] ELSE <<sep>> \o texts[i]],
           Len(texts))

(* text.replace(/"/g, '""') *)
DoubleQuotes(text) ==
    Concat([i \in 1..Len(text) |-> IF text[i] = Quote THEN <<Quote, Quote>> ELSE <<text[i]>>],
           Len(text))

Pad2(n) == IF n < 10 THEN "0" \o ToString(n) ELSE ToString(n)

(* the 'YYYY-MM-DD' string of day n *)
IsoString(n) ==
    ToString(GetFullYear(n)) \o "-" \o Pad2(GetMonth(n)) \o "-" \o Pad2(GetDate(n))

(* toLocaleDateString('en-US', { month: 'long' }) *)
MonthName(m) ==
    <<"January", "February", "March", "April", "May", "June", "July", "August",
      "September", "October", "November", "December">>[m]

(* toLocaleDateString() of local day n, in the en-US locale *)
LocaleDateString(n) ==
    ToString(GetMonth(n)) \o "/" \o ToString(GetDate(n)) \o "/" \o ToString(GetFullYear(n))

(* encodeURI: the comma and # are reserved characters and stay, the double  *)
(* quote, the line feed and % are escaped                                   *)
encodeURI(text) ==
    [i \in 1..Len(text) |->
        CASE text[i] = Quote -> "%22"
          [] text[i] = LineFeed -> "%0A"
          [] text[i] = Percent -> "%25"
          [] OTHER -> text[i]]

(* percent-decoding, as the browser does on the data of a data: URL *)
PercentDecode(text) ==
    [i \in 1..Len(text) |->
        CASE text[i] = "%22" -> Quote
          [] text[i] = "%0A" -> LineFeed
          [] text[i] = "%25" -> Percent
          [] OTHER -> text[i]]

(* a URL up to its fragment: the part before the first # *)
BeforeFragment(url) ==
    IF \E i \in 1..Len(url) : url[i] = Hash
    THEN SubSeq(url, 1, (CHOOSE i \in 1..Len(url) :
                            /\ url[i] = Hash
                            /\ \A j \in 1..(i - 1) : url[j] # Hash) - 1)
    ELSE url

----------------------------------------------------------------------------
(* The insights panel (AIAnalytics) and the sync button of                  *)
(* TransactionHistory.  Both are drawn only while the list has a record.    *)

examplePrompts ==
    { "Are my claims ready for submission?", "How much did I spend on gas and toll?" }

(* String.prototype.trim, on the texts typed here *)
Trim(q) == IF q \in {"", " "} THEN "" ELSE q

InsightsFailedMsg == [text |-> "Failed to get insights. Please try again."]

PanelShown == pc = "ready" /\ Len(savedReceipts) > 0

(* value || 'N/A' on a field of the table *)
FieldOrNA(s) == IF Truthy(s) THEN Chars(s) ELSE <<"N/A">>

(* Number.prototype.toFixed(2), on whole amounts *)
toFixed2(n) == ToString(n) \o ".00"

(* the amount cell with 'N/A' for an absent amount *)
AmountCellOrNA(a) == IF a.tag = "number" THEN <<toFixed2(a.n)>> ELSE <<"N/A">>

(* t.total_amount?.toFixed(2) || '0.00' *)
AmountCell(a) == IF a.tag = "number" THEN <<toFixed2(a.n)>> ELSE <<"0.00">>

(* formatTransactionsForAI: the table getSpendingAnalysis puts in its prompt *)
formatTransactionsForAI(transactions) ==
    IF Len(transactions) = 0 THEN <<"No transactions available.">>
    ELSE <<"Date", Comma, "Transaction", Comma, "Amount", Comma, "Category", Comma,
           "Client/Prospect", Comma, "Purpose", LineFeed>>
         \o Concat([i \in 1..Len(transactions) |->
                      Join(<<IF TruthyDate(transactions[i].transaction_date)
                               THEN <<IsoString(transactions[i].transaction_date.day)>>
                               ELSE <<"N/A">>,
                             FieldOrNA(transactions[i].transaction_name),
                             AmountCell(transactions[i].total_amount),
                             FieldOrNA(transactions[i].category),
                             FieldOrNA(transactions[i].client_or_prospect),
                             FieldOrNA(transactions[i].purpose)>>, Comma)
                      \o <<LineFeed>>],
                   Len(transactions))

(* the textarea's onChange and handlePromptClick *)
SetQuery(q) ==
    /\ PanelShown
    /\ query' = q
    /\ lastOp' = Other("setQuery")
    /\ UNCHANGED <<storeVars, uiVars, viewVars, envVars, boot, analysis, aiLoading,
                   aiError, aiPending, syncStatus, syncFetches, syncTimers, lastExport>>

(* handleGetInsights up to its await *)
handleGetInsights ==
    /\ ~(Trim(query) = "" \/ Len(savedReceipts) = 0)
    /\ aiLoading' = TRUE
    /\ aiError' = NoError
    /\ analysis' = NoAnswer
    /\ aiPending' = Append(aiPending, query)
    /\ UNCHANGED <<storeVars, uiVars, viewVars, envVars, boot, query,
                   syncStatus, syncFetches, syncTimers, lastExport>>

(* the Get Insights button, disabled while loading or without a query *)
GetInsightsClick ==
    /\ PanelShown
    /\ ~(aiLoading \/ Trim(query) = "")
    /\ Len(aiPending) < MaxRequests
    /\ handleGetInsights
    /\ lastOp' = [name |-> "getInsightsClick", query |-> query,
                  table |-> formatTransactionsForAI(savedReceipts)]

(* Enter in the textarea: onKeyDown calls handleGetInsights *)
GetInsightsEnter ==
    /\ PanelShown
    /\ Len(aiPending) < MaxRequests
    /\ handleGetInsights
    /\ lastOp' = [name |-> "getInsightsEnter", query |-> query,
                  table |-> formatTransactionsForAI(savedReceipts)]

RemoveAt(seq, i) == SubSeq(seq, 1, i - 1) \o SubSeq(seq, i + 1, Len(seq))

(* handleGetInsights after getSpendingAnalysis resolved: responses arrive   *)
(* in any order                                                             *)
InsightsResolve(i) ==
    /\ pc = "ready"
    /\ i \in 1..Len(aiPending)
    /\ analysis' = [of |-> aiPending[i], text |-> "analysis"]
    /\ aiLoading' = FALSE
    /\ aiPending' = RemoveAt(aiPending, i)
    /\ lastOp' = Other("insightsResolved")
    /\ UNCHANGED <<storeVars, uiVars, viewVars, envVars, boot, query, aiError,
                   syncStatus, syncFetches, syncTimers, lastExport>>

(* handleGetInsights after getSpendingAnalysis rejected *)
InsightsReject(i) ==
    /\ pc = "ready"
    /\ i \in 1..Len(aiPending)
    /\ aiError' = InsightsFailedMsg
    /\ aiLoading' = FALSE
    /\ aiPending' = RemoveAt(aiPending, i)
    /\ lastOp' = Other("insightsFailed")
    /\ UNCHANGED <<storeVars, uiVars, viewVars, envVars, boot, query, analysis,
                   syncStatus, syncFetches, syncTimers, lastExport>>

(* the Sync button, disabled unless syncStatus is idle: handleSync up to    *)
(* its await                                                                *)
SyncClick ==
    /\ PanelShown
    /\ syncStatus = "idle"
    /\ syncFetches + syncTimers < MaxRequests
    /\ syncStatus' = "syncing"
    /\ syncFetches' = syncFetches + 1
    /\ lastOp' = Other("syncClick")
    /\ UNCHANGED <<storeVars, uiVars, viewVars, envVars, boot, query, analysis,
                   aiLoading, aiError, aiPending, syncTimers, lastExport>>

(* handleSync after fetch resolved; finally arms the 2500 ms timer *)
SyncSucceeds ==
    /\ pc = "ready"
    /\ syncFetches > 0
    /\ syncStatus' = "synced"
    /\ syncFetches' = syncFetches - 1
    /\ syncTimers' = syncTimers + 1
    /\ lastOp' = Other("syncSucceeded")
    /\ UNCHANGED <<storeVars, uiVars, viewVars, envVars, boot, query, analysis,
                   aiLoading, aiError, aiPending, lastExport>>

(* handleSync after fetch rejected: the alert, idle at once, and finally    *)
(* arms the timer all the same                                              *)
SyncFails ==
    /\ pc = "ready"
    /\ syncFetches > 0
    /\ syncStatus' = "idle"
    /\ syncFetches' = syncFetches - 1
    /\ syncTimers' = syncTimers + 1
    /\ lastOp' = Other("syncFailed")
    /\ UNCHANGED <<storeVars, uiVars, viewVars, envVars, boot, query, analysis,
                   aiLoading, aiError, aiPending, lastExport>>

(* the timer's callback: setSyncStatus('idle') *)
SyncTimerFires ==
    /\ pc = "ready"
    /\ syncTimers > 0
    /\ syncStatus' = "idle"
    /\ syncTimers' = syncTimers - 1
    /\ lastOp' = Other("syncTimer")
    /\ UNCHANGED <<storeVars, uiVars, viewVars, envVars, boot, query, analysis,
                   aiLoading, aiError, aiPending, syncFetches, lastExport>>

----------------------------------------------------------------------------
(* The exports of TransactionHistory: periodTitle, the CSV and the PDF.     *)
(* filteredData and periodTitle are those of the last computation of the    *)
(* memo, made at renderedAt.                                                *)

periodTitle(filter, t) ==
    LET n == LocalDay(t)
    IN  CASE filter = "Daily" ->
               <<"Summary for " \o MonthName(GetMonth(n)) \o " " \o ToString(GetDate(n)),
                 Comma, " " \o ToString(GetFullYear(n))>>
          [] filter = "Weekly" ->
               <<"Summary for "
                   \o LocaleDateString(LocalDay(getWeekRange(t).start))
                   \o " - "
                   \o LocaleDateString(LocalDay(getWeekRange(t).endNext - 1))>>
          [] filter = "Monthly" ->
               <<"Summary for " \o MonthName(GetMonth(n)) \o " " \o ToString(GetFullYear(n))>>
          [] filter = "Quarterly" ->
               <<"Summary for Q" \o ToString(((GetMonth(n) - 1) \div 3) + 1)
                   \o " " \o ToString(GetFullYear(n))>>
          [] filter = "Yearly" -> <<"Summary for " \o ToString(GetFullYear(n))>>
          [] OTHER -> <<"All Transactions">>

(* `"${value?.replace(/"/g, '""') || ''}"` *)
QuotedField(s) ==
    <<Quote>> \o (IF Truthy(s) THEN DoubleQuotes(Chars(s)) ELSE <<>>) \o <<Quote>>

(* r.transaction_date || '' *)
DateField(d) == IF TruthyDate(d) THEN <<IsoString(d.day)>> ELSE <<>>

(* r.total_amount?.toString() || '0' *)
AmountField(a) == IF a.tag = "number" THEN <<ToString(a.n)>> ELSE <<"0">>

DataPrefix == "data:text/csv;charset=utf-8,"

CsvHeaderAll ==
    <<"Date", Comma, "Transaction", Comma, "Amount", Comma, "Category", Comma,
      "Client/Prospect", Comma, "Purpose", LineFeed>>

(* the rows of the All view, one per record of filteredData *)
CsvRowsAll(data) ==
    [i \in 1..Len(data) |->
        <<DateField(data[i].transaction_date),
          QuotedField(data[i].transaction_name),
          AmountField(data[i].total_amount),
          Chars(CategoryOrUncategorized(data[i].category)),
          QuotedField(data[i].client_or_prospect),
          QuotedField(data[i].purpose)>>]

(* the rows of a summary, one per pair of filteredData *)
CsvRowsSummary(data) ==
    [i \in 1..Len(data) |-> <<Chars(data[i].category), <<ToString(data[i].total)>>>>]

(* csvContent + csvRows, without the data: prefix *)
CsvText(filter, data, title) ==
    LET rows == IF filter = "All" THEN CsvRowsAll(data) ELSE CsvRowsSummary(data)
    IN  (IF filter = "All"
         THEN CsvHeaderAll
         ELSE <<"Category", Comma, "Total Amount for ">> \o title \o <<LineFeed>>)
        \o Join([i \in 1..Len(rows) |-> Join(rows[i], Comma)], LineFeed)

(* the href of the link: encodeURI(csvContent + csvRows) *)
CsvHref(filter, data, title) == <<DataPrefix>> \o encodeURI(CsvText(filter, data, title))

(* the file the browser writes for a link to a data: URL: the data before   *)
(* the fragment, percent-decoded                                            *)
Downloaded(href) == PercentDecode(BeforeFragment(Tail(href)))

ExportsShown == pc = "ready" /\ Len(savedReceipts) > 0

(* handleDownloadCsv, and the click on the link it builds *)
DownloadCsv ==
    /\ ExportsShown
    /\ lastExport' =
         [kind |-> "csv", list |-> savedReceipts, filter |-> activeFilter, at |-> now,
          computedAt |-> renderedAt,
          href |-> CsvHref(activeFilter,
                           FilteredData(savedReceipts, activeFilter, renderedAt),
                           periodTitle(activeFilter, renderedAt)),
          name |-> "ResiboKo_Export_" \o activeFilter \o "_" \o IsoString(UtcDay(now))
                     \o ".csv"]
    /\ lastOp' = Other("downloadCsv")
    /\ UNCHANGED <<storeVars, uiVars, viewVars, envVars, boot, query, analysis, aiLoading,
                   aiError, aiPending, syncStatus, syncFetches, syncTimers>>

NoticeText == "PDF generation is only available for the 'All' transactions view."

(* value || 'N/A', with the mistaken form that lets the empty string pass   *)
OrNAUnlessEmpty(s) == IF s \in {NullS, UndefS} THEN "N/A" ELSE s

(* value || 'N/A' *)
OrNA(s) == IF Truthy(s) THEN s ELSE "N/A"

(* Intl.NumberFormat('en-PH', { style: 'currency', currency: 'PHP' }), on   *)
(* whole amounts below one thousand                                         *)
formatCurrency(n) == "PHP " \o ToString(n) \o ".00"

RECURSIVE TotalAmount(_, _)
(* data.reduce((sum, r) => sum + (r.total_amount || 0), 0) *)
TotalAmount(data, n) ==
    IF n = 0 THEN 0 ELSE TotalAmount(data, n - 1) + AmountOrZero(data[n].total_amount)

(* the body of the table: one row per record, then the TOTAL row *)
PdfBody(data) ==
    [i \in 1..Len(data) |->
        <<IF TruthyDate(data[i].transaction_date)
            THEN IsoString(data[i].transaction_date.day) ELSE "N/A",
          OrNA(data[i].transaction_name),
          OrNA(data[i].client_or_prospect),
          OrNA(data[i].purpose),
          OrNA(data[i].category),
          formatCurrency(AmountOrZero(data[i].total_amount))>>]
    \o <<<<"", "", "", "", "TOTAL", formatCurrency(TotalAmount(data, Len(data)))>>>>

(* didDrawCell: the rows whose cell of column index 3 is 'N/A' *)
PdfFlagged(body) == { i \in 1..Len(body) : body[i][4] = "N/A" }

(* the Missing Purpose badge of a list item of the All view *)
MissingPurposeBadge(receipt) == ~Truthy(receipt.purpose)

(* handleGeneratePdf: the notice under a selector other than All, or the    *)
(* document and doc.save                                                    *)
handleGeneratePdf ==
    IF activeFilter # "All"
    THEN /\ lastOp' = [name |-> "pdfClick", outcome |-> "notice", notice |-> NoticeText]
         /\ UNCHANGED lastExport
    ELSE /\ lastOp' = [name |-> "pdfClick", outcome |-> "pdf", notice |-> ""]
         /\ lastExport' =
              LET data == FilteredData(savedReceipts, activeFilter, renderedAt)
              IN  [kind |-> "pdf", list |-> savedReceipts, filter |-> activeFilter,
                   at |-> now, computedAt |-> renderedAt,
                   title |-> periodTitle(activeFilter, renderedAt),
                   body |-> PdfBody(data),
                   flagged |-> PdfFlagged(PdfBody(data)),
                   name |-> "ResiboKo_Liquidation_" \o IsoString(UtcDay(now)) \o ".pdf"]

(* a click on the PDF button, which is disabled under every selector other  *)
(* than All: the click on the disabled button calls no handler              *)
PdfClick ==
    /\ ExportsShown
    /\ IF activeFilter # "All"
       THEN /\ lastOp' = [name |-> "pdfClick", outcome |-> "none", notice |-> ""]
            /\ UNCHANGED lastExport
       ELSE handleGeneratePdf
    /\ UNCHANGED <<storeVars, uiVars, viewVars, envVars, boot, query, analysis, aiLoading,
                   aiError, aiPending, syncStatus, syncFetches, syncTimers>>

----------------------------------------------------------------------------
(* Reading a CSV text back, with the standard quoting: a field that starts  *)
(* with a double quote runs to the closing one, two double quotes inside it *)
(* stand for one, and commas and line feeds inside it belong to the field.  *)
(* The result is the sequence of the rows, a row the sequence of its        *)
(* fields, a field a text.                                                  *)

RECURSIVE ParseCsvFrom(_, _, _, _, _, _)
ParseCsvFrom(text, i, mode, field, row, rows) ==
    IF i > Len(text)
    THEN IF mode = "start" /\ row = <<>> THEN rows ELSE Append(rows, Append(row, field))
    ELSE LET c == text[i]
         IN  CASE mode = "quoted" ->
                    IF c = Quote
                    THEN ParseCsvFrom(text, i + 1, "closing", field, row, rows)
                    ELSE ParseCsvFrom(text, i + 1, "quoted", Append(field, c), row, rows)
               [] mode = "closing" /\ c = Quote ->
                    ParseCsvFrom(text, i + 1, "quoted", Append(field, c), row, rows)
               [] mode \in {"start", "field"} /\ c = Quote ->
                    ParseCsvFrom(text, i + 1, "quoted", field, row, rows)
               [] OTHER ->
                    IF c = Comma
                    THEN ParseCsvFrom(text, i + 1, "field", <<>>, Append(row, field), rows)
                    ELSE IF c = LineFeed
                    THEN ParseCsvFrom(text, i + 1, "start", <<>>, <<>>,
                                      Append(rows, Append(row, field)))
                    ELSE ParseCsvFrom(text, i + 1, "plain", Append(field, c), row, rows)

ParseCsv(text) == ParseCsvFrom(text, 1, "start", <<>>, <<>>, <<>>)

RECURSIVE SplitFrom(_, _, _, _, _)
(* String.prototype.split on one character *)
SplitFrom(text, sep, i, part, parts) ==
    IF i > Len(text) THEN Append(parts, part)
    ELSE IF text[i] = sep
         THEN SplitFrom(text, sep, i + 1, <<>>, Append(parts, part))
         ELSE SplitFrom(text, sep, i + 1, Append(part, text[i]), parts)

Split(text, sep) == SplitFrom(text, sep, 1, <<>>, <<>>)

----------------------------------------------------------------------------
(* The record store under saves, deletes and restarts *)

Day1 == DaysFromCivil(2026, 11, 1)

StartNow == (Day1 + 1) * TicksPerDay + 1

Clock(t0) == t0 .. t0 + MaxClock

(* the bound on the length of the saved list: a save that would be accepted *)
(* is left out once the list holds cap records                              *)
Room(data, cap) == Rejected(data) \/ Len(savedReceipts) < cap

BaseInput == ReceiptData("Parking", Num(50), Iso(Day1), "Transportation", NullS, NullS)

(* what the review screen and the entry form can hand to onSave: three      *)
(* records the guard lets through, one per date (the base record, one whose *)
(* amount was never filled in, one with free text for a category), and the  *)
(* base record with one required field null, undefined or empty             *)
StoreInputs ==
    { BaseInput,
      [BaseInput EXCEPT !.transaction_date = Iso(Day1 + 1), !.total_amount = UndefAmt],
      [BaseInput EXCEPT !.transaction_date = Iso(Day1 + 2), !.category = "Misc"] }
    \cup { [BaseInput EXCEPT !.transaction_name = ""] }
    \cup { [BaseInput EXCEPT !.total_amount = NullAmt] }
    \cup { [BaseInput EXCEPT !.transaction_date = NullDate] }
    \cup { [BaseInput EXCEPT !.category = v] : v \in {NullS, UndefS, ""} }

StoreResponses ==
    { ReceiptData("SM Store", Num(200), Iso(Day1), "groceries", UndefS, UndefS) }

InitialStorages == {StorageMissing, StorageEmptyString, StorageUnparseable, StorageNonArray}

InitWith(t0, zones, storages) ==
    /\ savedReceipts = <<>>
    /\ storage \in storages
    /\ pc = "mounted"
    /\ pendingLoad = NoUpdate
    /\ receiptData = NoRecord
    /\ isLoading = FALSE
    /\ error = NoError
    /\ manualEntryData = NoRecord
    /\ showCamera = FALSE
    /\ inflight = 0
    /\ activeFilter = "All"
    /\ renderedAt = t0
    /\ query = NoText
    /\ analysis = NoAnswer
    /\ aiLoading = FALSE
    /\ aiError = NoError
    /\ aiPending = <<>>
    /\ syncStatus = "idle"
    /\ syncFetches = 0
    /\ syncTimers = 0
    /\ lastExport = NoExport
    /\ now = t0
    /\ tz \in zones
    /\ lastOp = Other("init")
    /\ boot = Booted(FALSE, storage.kind, <<>>)

Init == InitWith(StartNow, {1}, InitialStorages)

Next ==
    \/ LoadEffect
    \/ PersistEffectOnMount
    \/ CommitLoaded
    \/ Restart
    \/ Tick(StartNow)
    \/ OpenManualEntry
    \/ CloseManualEntry
    \/ \E data \in StoreInputs \cup {manualEntryData} :
          SaveFromManual(data) /\ Room(data, MaxReceipts)
    \/ SelectImage(1)
    \/ \E raw \in StoreResponses : ImageResolve(raw)
    \/ \E data \in StoreInputs \cup {receiptData} :
          SaveFromReview(data) /\ Room(data, MaxReceipts)
    \/ Discard
    \/ \E id \in Clock(StartNow) : Delete(id)
    \/ \E f \in {"All", "Monthly"} : SetFilter(f)

Spec == Init /\ [][Next]_vars

----------------------------------------------------------------------------
(* The capture card: extraction from an image and from a recording *)

(* responses of the model: every category of the enumeration, two strings   *)
(* outside it and the three ways of being absent, under a date of this      *)
(* month, the first day of this year and no date; one response with the     *)
(* amount as text and one without a name                                    *)
ExtractResponses ==
    { ReceiptData("SM Store", Num(200), d, c, UndefS, UndefS) :
        d \in {Iso(Day1), Iso(DaysFromCivil(2026, 1, 1)),
               Iso(DaysFromCivil(2026, 1, 1) - 1), NullDate},
        c \in categories \cup {"groceries", "Misc", "", NullS, UndefS} }
    \cup { ReceiptData("SM Store", [tag |-> "string", n |-> 200], Iso(Day1), "Shopping",
                       UndefS, UndefS),
           ReceiptData(UndefS, Num(200), Iso(Day1), "Shopping", UndefS, UndefS) }

InitExtract == InitWith(StartNow, {-1, 0, 1}, {StorageMissing})

NextExtract ==
    \/ LoadEffect
    \/ PersistEffectOnMount
    \/ CommitLoaded
    \/ Tick(StartNow)
    \/ OpenManualEntry
    \/ \E p \in agentPresets : PresetClick(p)
    \/ CloseManualEntry
    \/ \E raw \in ExtractResponses : VoiceExtract(raw)
    \/ SelectImage(1)
    \/ \E raw \in ExtractResponses : ImageResolve(raw)
    \/ ImageReject
    \/ Discard

SpecExtract == InitExtract /\ [][NextExtract]_vars

----------------------------------------------------------------------------
(* The capture card with its two image sources, the uploader and the camera *)

CaptureResponses ==
    { ReceiptData(name, Num(200), Iso(Day1), "Shopping", UndefS, UndefS) :
        name \in {"SM Store", "Shell", "Petron"} }

InitCapture == InitWith(StartNow, {1}, {StorageMissing})

NextCapture ==
    \/ LoadEffect
    \/ PersistEffectOnMount
    \/ CommitLoaded
    \/ OpenCamera
    \/ CloseCamera
    \/ CameraCapture(MaxRequests)
    \/ SelectImage(MaxRequests)
    \/ \E raw \in CaptureResponses : ImageResolve(raw)
    \/ ImageReject
    \/ Discard
    \/ OpenManualEntry
    \/ CloseManualEntry

SpecCapture == InitCapture /\ [][NextCapture]_vars

----------------------------------------------------------------------------
(* The history list under its selectors *)

(* records of two categories, with an amount or without one, dated the last *)
(* day of the previous month, the first of this month and today             *)
SummaryInputs ==
    { ReceiptData("Expense", Num(50), Iso(d), "Transportation", NullS, NullS) :
        d \in {Day1 - 1, Day1, Day1 + 1} }
    \cup { ReceiptData("Expense", a, Iso(d), "Food & Drink", NullS, NullS) :
             a \in {Num(200), UndefAmt}, d \in {Day1 - 1, Day1, Day1 + 1} }

InitSummary == InitWith(StartNow, {-1, 1}, {StorageMissing})

NextSummary ==
    \/ LoadEffect
    \/ PersistEffectOnMount
    \/ CommitLoaded
    \/ OpenManualEntry
    \/ \E data \in SummaryInputs : SaveFromManual(data) /\ Room(data, MaxReceipts + 1)
    \/ Delete(StartNow)
    \/ \E f \in Filters : SetFilter(f)

SpecSummary == InitSummary /\ [][NextSummary]_vars

----------------------------------------------------------------------------
(* The three-record scenario: from an empty list, three saves in this       *)
(* order, each under any date of the first days of the current month        *)

Scenario ==
    << [transaction_name |-> "Parking", total_amount |-> Num(50),
        category |-> "Transportation"],
       [transaction_name |-> "Toll", total_amount |-> Num(100),
        category |-> "Transportation"],
       [transaction_name |-> "Client Lunch", total_amount |-> Num(200),
        category |-> "Food & Drink"] >>

ScenarioDates == {Day1, Day1 + 1, Day1 + 2}

ScenarioRecord(k, d) ==
    ReceiptData(Scenario[k].transaction_name, Scenario[k].total_amount, Iso(d),
                Scenario[k].category, NullS, NullS)

InitScenario == InitWith(StartNow, {-1, 0, 1}, {StorageMissing})

NextScenario ==
    \/ LoadEffect
    \/ PersistEffectOnMount
    \/ CommitLoaded
    \/ Tick(StartNow)
    \/ OpenManualEntry
    \/ \E k \in 1..Len(Scenario), d \in ScenarioDates :
          /\ Len(savedReceipts) = k - 1
          /\ SaveFromManual(ScenarioRecord(k, d))
    \/ \E f \in {"All", "Monthly"} : SetFilter(f)

SpecScenario == InitScenario /\ [][NextScenario]_vars

----------------------------------------------------------------------------
(* The selectors' windows: a list a previous session left in storage, read  *)
(* at an instant of any weekday, in a zone behind, at or ahead of UTC       *)

(* the days the clock is read on: Monday 2 November 2026, and Monday 28     *)
(* December 2026 to Sunday 3 January 2027, a week that runs over the end of *)
(* a month, a quarter and a year                                            *)
WindowNowDays ==
    {Day1 + 1} \cup { DaysFromCivil(2026, 12, 28) + k : k \in 0..6 }

WindowNows == { d * TicksPerDay + k : d \in WindowNowDays, k \in 0..(TicksPerDay - 1) }

(* the dates of the stored record: the first day of each window of those    *)
(* instants and the day before it, the last day of each week and the day    *)
(* after it                                                                 *)
WindowDates ==
    { DaysFromCivil(2026, 1, 1) - 1, DaysFromCivil(2026, 1, 1),
      DaysFromCivil(2026, 10, 1) - 1, DaysFromCivil(2026, 10, 1),
      Day1 - 1, Day1, Day1 + 1, Day1 + 7, Day1 + 8,
      DaysFromCivil(2026, 12, 1) - 1, DaysFromCivil(2026, 12, 1),
      DaysFromCivil(2026, 12, 28) - 1, DaysFromCivil(2026, 12, 28),
      DaysFromCivil(2027, 1, 1) - 1, DaysFromCivil(2027, 1, 1),
      DaysFromCivil(2027, 1, 3), DaysFromCivil(2027, 1, 3) + 1 }

WindowStorages ==
    { SetItem(<<NewReceipt(ReceiptData("Expense", Num(50), Iso(d), "Transportation",
                                       NullS, NullS), 1)>>) : d \in WindowDates }

InitWindows == \E t0 \in WindowNows : InitWith(t0, {-1, 0, 1}, WindowStorages)

NextWindows ==
    \/ LoadEffect
    \/ PersistEffectOnMount
    \/ CommitLoaded
    \/ \E f \in Filters : SetFilter(f)

SpecWindows == InitWindows /\ [][NextWindows]_vars

----------------------------------------------------------------------------
(* The panels over a list a previous session left in storage *)

PanelStorages ==
    { SetItem(<<NewReceipt(ReceiptData("Expense", Num(50), Iso(Day1 + 1), "Transportation",
                                       NullS, NullS), 1)>>) }

InitPanels == InitWith(StartNow, {1}, PanelStorages)

NextPanels ==
    \/ LoadEffect
    \/ PersistEffectOnMount
    \/ CommitLoaded
    \/ \E q \in examplePrompts \cup {"", " "} : SetQuery(q)
    \/ GetInsightsClick
    \/ GetInsightsEnter
    \/ \E i \in 1..MaxRequests : InsightsResolve(i)
    \/ \E i \in 1..MaxRequests : InsightsReject(i)
    \/ SyncClick
    \/ SyncSucceeds
    \/ SyncFails
    \/ SyncTimerFires

SpecPanels == InitPanels /\ [][NextPanels]_vars

----------------------------------------------------------------------------
(* The exports over a list a previous session left in storage, in a zone    *)
(* ahead of UTC where the clock's next tick is past local midnight          *)

ExportRecords ==
    { ReceiptData("Parking", Num(50), Iso(Day1 + 1), "Transportation", NullS, NullS),
      ReceiptData("Lunch, Makati", Num(200), Iso(Day1 + 2), "Food & Drink",
                  "the \"big\" deal", "Client visit"),
      ReceiptData("Unit #5", Num(120), Iso(Day1 + 1), "Shopping", "50% off", ""),
      ReceiptData("Toll", Num(80), Iso(Day1), "Transportation", "line 1\nline 2", "N/A"),
      ReceiptData("Gas", Num(300), Iso(Day1 + 2), "Transportation", UndefS, UndefS) }

(* the lists of up to MaxReceipts different records, by date descending,    *)
(* the record saved last carrying the greatest id                           *)
ExportLists ==
    { [i \in 1..Len(l) |-> NewReceipt(l[i], Len(l) + 1 - i)] :
        l \in { m \in UNION { [1..n -> ExportRecords] : n \in 1..MaxReceipts } :
                  /\ \A i, j \in 1..Len(m) : i # j => m[i] # m[j]
                  /\ \A i \in 1..(Len(m) - 1) :
                        m[i].transaction_date.day >= m[i + 1].transaction_date.day } }

InitExport == InitWith(StartNow, {1}, { SetItem(l) : l \in ExportLists })

NextExport ==
    \/ LoadEffect
    \/ PersistEffectOnMount
    \/ CommitLoaded
    \/ Tick(StartNow)
    \/ \E f \in Filters : SetFilter(f)
    \/ DownloadCsv
    \/ PdfClick

SpecExport == InitExport /\ [][NextExport]_vars

----------------------------------------------------------------------------
(* The table of the analysis request, over the lists the store can hold:    *)
(* counterparty and purpose may be absent, and the amount may be undefined  *)

TableRecords ==
    { ReceiptData("Parking", Num(50), Iso(Day1 + 1), "Transportation", NullS, NullS),
      ReceiptData("Lunch", UndefAmt, Iso(Day1 + 2), "Food & Drink", "Acme", "Client visit"),
      ReceiptData("Toll", Num(0), Iso(Day1), "Transportation", UndefS, ""),
      ReceiptData("Lunch, Makati", Num(200), Iso(Day1 + 1), "Food & Drink", "", UndefS) }

TableLists ==
    { [i \in 1..Len(l) |-> NewReceipt(l[i], Len(l) + 1 - i)] :
        l \in { m \in UNION { [1..n -> TableRecords] : n \in 1..MaxReceipts } :
                  /\ \A i, j \in 1..Len(m) : i # j => m[i] # m[j]
                  /\ \A i \in 1..(Len(m) - 1) :
                        m[i].transaction_date.day >= m[i + 1].transaction_date.day } }

InitTable == InitWith(StartNow, {1}, { SetItem(l) : l \in TableLists })

NextTable ==
    \/ LoadEffect
    \/ PersistEffectOnMount
    \/ CommitLoaded
    \/ \E q \in examplePrompts : SetQuery(q)
    \/ GetInsightsClick
    \/ GetInsightsEnter
    \/ \E i \in 1..MaxRequests : InsightsResolve(i)
    \/ \E i \in 1..MaxRequests : InsightsReject(i)

SpecTable == InitTable /\ [][NextTable]_vars

----------------------------------------------------------------------------
(* Properties of the record store *)

Present(s) == s \notin {NullS, UndefS, ""}

PresentAmount(a) == a.tag = "number"

PresentDate(d) == d.tag = "iso"

Complete(r) ==
    /\ Present(r.transaction_name)
    /\ PresentAmount(r.total_amount)
    /\ PresentDate(r.transaction_date)
    /\ Present(r.category)

(* s is t with some elements left out: the elements of s occur in t in the  *)
(* same order                                                               *)
RECURSIVE EmbedsInOrder(_, _)
EmbedsInOrder(s, t) ==
    IF s = <<>> THEN TRUE
    ELSE IF t = <<>> THEN FALSE
    ELSE IF Head(s) = Head(t) THEN EmbedsInOrder(Tail(s), Tail(t))
    ELSE EmbedsInOrder(s, Tail(t))

(* C1: every record of the saved list has transaction_name, total_amount,   *)
(* transaction_date and category present (not null, undefined or empty).    *)
C1_SavedRecordsComplete ==
    \A i \in 1..Len(savedReceipts) : Complete(savedReceipts[i])

(* C2: the saved list is non-increasing by transaction_date: each element's *)
(* date is on or after the date of the element that follows it.             *)
C2_SortedByDateDescending ==
    \A i \in 1..Len(savedReceipts) - 1 :
        savedReceipts[i].transaction_date.day >= savedReceipts[i + 1].transaction_date.day

C2_Witness ==
    /\ Len(savedReceipts) >= 2
    /\ savedReceipts[1].transaction_date.day > savedReceipts[2].transaction_date.day
    /\ savedReceipts[1].id < savedReceipts[2].id
    /\ lastOp.name = "save"

(* C3: every record of the saved list and of the storage entry has a        *)
(* category that is one of the nine values of the enumeration.              *)
C3_CategoryInEnumeration ==
    /\ \A i \in 1..Len(savedReceipts) : savedReceipts[i].category \in categories
    /\ \A i \in 1..Len(storage.items) :
          /\ "category" \in DOMAIN storage.items[i]
          /\ storage.items[i].category \in categories

(* C4: a save attempt for a record missing a required field is rejected:    *)
(* the error becomes the incomplete-data message and the saved list and the *)
(* storage entry are what they were before the attempt.                     *)
C4_IncompleteSaveRejected ==
    [][(lastOp'.name = "save" /\ ~Complete(lastOp'.data))
         => /\ error' = IncompleteMsg
            /\ savedReceipts' = savedReceipts
            /\ storage' = storage]_vars

(* C27: a rejected save does not discard the entry in progress: the record *)
(* under review and the data of the open entry form are what they were      *)
(* before the attempt.                                                      *)
C27_RejectedSaveKeepsEntry ==
    [][(lastOp'.name = "save" /\ Rejected(lastOp'.data))
         => /\ receiptData' = receiptData
            /\ manualEntryData' = manualEntryData]_vars

(* C5: once the persist effect has run the storage entry holds the          *)
(* serialization of the whole current list, parsing it gives the list back, *)
(* and after a restart the mounted application holds the list the previous  *)
(* session ended with, same records in the same order.                      *)
C5_PersistedAndRestored ==
    pc = "ready" =>
        /\ storage.kind = "array"
        /\ Len(storage.items) = Len(savedReceipts)
        /\ \A i \in 1..Len(savedReceipts) :
              \A k \in SavedKeys :
                 IF IsUndefined(k, savedReceipts[i][k])
                 THEN k \notin DOMAIN storage.items[i]
                 ELSE k \in DOMAIN storage.items[i]
                      /\ storage.items[i][k] = savedReceipts[i][k]
        /\ JSON_parse(storage.items) = savedReceipts
        /\ (boot.known /\ boot.restarted) => savedReceipts = boot.list

C5_Witness ==
    /\ pc = "ready"
    /\ boot.known
    /\ boot.restarted
    /\ savedReceipts = boot.list
    /\ Len(savedReceipts) = 2
    /\ savedReceipts[1].id > savedReceipts[2].id
    /\ \E i \in 1..2 : savedReceipts[i].total_amount = UndefAmt

(* C25: in every reachable state, the states of start-up between the load  *)
(* effect and the persist effect included, the storage entry holds every    *)
(* record the previous session left in it and the user has not deleted: a   *)
(* non-empty stored list is never overwritten by the initial empty list.    *)
C25_StoredListNeverOverwritten ==
    (boot.known /\ boot.restarted) =>
        /\ storage.kind = "array"
        /\ EmbedsInOrder(boot.list, JSON_parse(storage.items))

(* C6: when the storage entry is missing or corrupt, loading ends with an   *)
(* empty saved list and no error shown.                                     *)
C6_CorruptStorageLoadsEmpty ==
    (lastOp.name = "commitLoaded" /\ boot.known /\ boot.kind # "array")
        => /\ pc = "ready"
           /\ savedReceipts = <<>>
           /\ error = NoError

(* C7: within a session a record leaves the saved list only by              *)
(* handleDeleteReceipt(id), which removes the records with that id and      *)
(* keeps every other record in the same relative order (so an id that is    *)
(* not in the list changes nothing); every other operation keeps every      *)
(* record, in the same relative order.                                      *)
C7_OnlyDeleteRemoves ==
    [][ CASE lastOp'.name = "delete" ->
               /\ EmbedsInOrder(savedReceipts', savedReceipts)
               /\ \A i \in 1..Len(savedReceipts') : savedReceipts'[i].id # lastOp'.id
               /\ Len(savedReceipts') =
                    Cardinality({i \in 1..Len(savedReceipts) :
                                    savedReceipts[i].id # lastOp'.id})
          [] lastOp'.name = "restart" -> TRUE
          [] OTHER -> EmbedsInOrder(savedReceipts, savedReceipts') ]_vars

C7_Witness ==
    /\ lastOp.name = "delete"
    /\ lastOp.removed = 1
    /\ Len(savedReceipts) = 1

----------------------------------------------------------------------------
(* Properties of the extraction adapter *)

(* C8: for every model response, on the image path and on the voice path,   *)
(* a category outside the enumeration or absent comes back as 'Other' and a *)
(* category of the enumeration comes back unchanged; the record put under   *)
(* review carries the category that came back.                              *)
C8_CategoryNormalized ==
    /\ lastOp.name \in {"analyzeReceipt", "analyzeVoice"} =>
          lastOp.out.category = IF lastOp.raw.category \in categories
                                THEN lastOp.raw.category
                                ELSE "Other"
    /\ (lastOp.name = "analyzeReceipt" /\ receiptData # NoRecord) =>
          receiptData.category = lastOp.out.category

C8_Witness ==
    /\ lastOp.name = "analyzeReceipt"
    /\ lastOp.raw.category = "groceries"
    /\ receiptData # NoRecord
    /\ receiptData.category = "Other"

(* C21: when image extraction returns a date whose year is not the current *)
(* year the record is discarded (nothing under review), the error names the *)
(* mismatched year and isLoading is false; when the date's year is the      *)
(* current year, whatever the date of that year and the time zone, the      *)
(* record is put under review.                                              *)
C21_YearCheck ==
    (lastOp.name = "analyzeReceipt" /\ TruthyDate(lastOp.out.transaction_date)) =>
        LET receiptYear == GetFullYear(lastOp.out.transaction_date.day)
            currentYear == GetFullYear(LocalDay(now))
        IN  /\ ~isLoading
            /\ IF receiptYear # currentYear
               THEN /\ receiptData = NoRecord
                    /\ error = YearMsg(receiptYear, currentYear)
               ELSE receiptData = lastOp.out

(* C15: at most one image extraction is outstanding at any time: while     *)
(* handleImageSelect awaits analyzeReceipt neither the uploader nor the     *)
(* camera starts a second one, so no response is outstanding while a result *)
(* is shown for review.                                                     *)
C15_OneExtractionOutstanding ==
    /\ inflight <= 1
    /\ receiptData # NoRecord => inflight = 0

(* C22: when an image extraction fails, no further request is issued for   *)
(* it, the error becomes the generic retryable message, nothing is under    *)
(* review, isLoading is false and the saved list and the storage entry are  *)
(* unchanged; a request is issued only by a submission of the user.         *)
C22_FailedExtraction ==
    [][ /\ lastOp'.name = "imageFailed" =>
              /\ inflight' = inflight - 1
              /\ error' = FailedMsg
              /\ receiptData' = NoRecord
              /\ ~isLoading'
              /\ UNCHANGED <<savedReceipts, storage>>
        /\ inflight' > inflight => lastOp'.name \in {"selectImage", "cameraCapture"} ]_vars

----------------------------------------------------------------------------
(* Properties of the summarization engine *)

RECURSIVE SumOfAmounts(_, _)
SumOfAmounts(list, indices) ==
    IF indices = {} THEN 0
    ELSE LET i == CHOOSE j \in indices : TRUE
         IN  (IF list[i].total_amount.tag = "number" THEN list[i].total_amount.n ELSE 0)
               + SumOfAmounts(list, indices \ {i})

RECURSIVE SumOfTotals(_)
SumOfTotals(pairs) ==
    IF pairs = <<>> THEN 0 ELSE Head(pairs).total + SumOfTotals(Tail(pairs))

(* C9: under every selector other than All, the summary of the saved list   *)
(* holds exactly one pair per category found among the filtered records,    *)
(* the pair's total is the sum of the amounts of the filtered records of    *)
(* that category with an absent amount counted as zero, and the totals add  *)
(* up to the sum of all filtered amounts.                                   *)
C9_SummaryPerCategory ==
    (pc = "ready" /\ activeFilter # "All") =>
            LET filtered == FilterReceipts(savedReceipts, activeFilter, now)
                summary  == FilteredData(savedReceipts, activeFilter, now)
                found    == {filtered[i].category : i \in 1..Len(filtered)}
            IN  /\ {summary[i].category : i \in 1..Len(summary)} = found
                /\ Len(summary) = Cardinality(found)
                /\ \A i \in 1..Len(summary) :
                      summary[i].total =
                         SumOfAmounts(filtered,
                                      {j \in 1..Len(filtered) :
                                          filtered[j].category = summary[i].category})
                /\ SumOfTotals(summary) = SumOfAmounts(filtered, 1..Len(filtered))

C9_Witness ==
    /\ lastOp.name = "setFilter"
    /\ lastOp.filter = "Monthly"
    /\ Len(savedReceipts) = 3
    /\ Len(FilterReceipts(savedReceipts, "Monthly", now)) = 2
    /\ \E i \in 1..2 : savedReceipts[i].total_amount = UndefAmt
    /\ lastOp.filteredData = <<[category |-> "Food & Drink", total |-> 200]>>

----------------------------------------------------------------------------
(* Properties of the three-record scenario *)

(* the three saves are done and Monthly has just been selected *)
ScenarioDone ==
    /\ lastOp.name = "setFilter"
    /\ lastOp.filter = "Monthly"
    /\ Len(savedReceipts) = Len(Scenario)

(* the date of the scenario's record of amount a, and whether the Monthly   *)
(* window takes it: its instant, midnight UTC of its date, is not before    *)
(* local midnight of the first of the month                                 *)
ScenarioDay(a) ==
    LET i == CHOOSE j \in 1..Len(savedReceipts) : savedReceipts[j].total_amount = Num(a)
    IN  savedReceipts[i].transaction_date.day

ScenarioTaken(a) == ScenarioDay(a) * TicksPerDay >= Day1 * TicksPerDay - tz

----------------------------------------------------------------------------
(* Properties of the selectors' windows *)

(* the records of the list on display under the current selector *)
Shown == FilterReceipts(savedReceipts, activeFilter, renderedAt)

IsShown(i) == \E j \in 1..Len(Shown) : Shown[j] = savedReceipts[i]

(* the Monday on or before day n *)
MondayOnOrBefore(n) == n - ((GetDay(n) + 6) % 7)

(* the first day of the window of a selector, for the local day n *)
FirstDay(filter, n) ==
    CASE filter = "Daily" -> n
      [] filter = "Monthly" -> DaysFromCivil(GetFullYear(n), GetMonth(n), 1)
      [] filter = "Quarterly" ->
           DaysFromCivil(GetFullYear(n), 3 * ((GetMonth(n) - 1) \div 3) + 1, 1)
      [] filter = "Yearly" -> DaysFromCivil(GetFullYear(n), 1, 1)

(* C11: for every now, getWeekRange starts at local midnight of the Monday  *)
(* on or before now and ends with the last millisecond of the Sunday six    *)
(* days later; Weekly shows a record dated that Monday or that Sunday and   *)
(* does not show one dated the day before the Monday or the day after the   *)
(* Sunday.                                                                  *)
C11_WeeklyWindow ==
    LET monday == MondayOnOrBefore(LocalDay(renderedAt))
    IN  /\ getWeekRange(renderedAt).start = monday * TicksPerDay - tz
        /\ getWeekRange(renderedAt).endNext = (monday + 7) * TicksPerDay - tz
        /\ (pc = "ready" /\ activeFilter = "Weekly") =>
              \A i \in 1..Len(savedReceipts) :
                 LET day == savedReceipts[i].transaction_date.day
                 IN  /\ day \in {monday, monday + 6} => IsShown(i)
                     /\ day \in {monday - 1, monday + 7} => ~IsShown(i)

(* C12: under Daily, Monthly, Quarterly and Yearly a record is shown        *)
(* exactly when its date is on or after the first day of the window in      *)
(* local time, in every time zone.                                          *)
C12_WindowFromFirstDay ==
    (pc = "ready" /\ activeFilter \in {"Daily", "Monthly", "Quarterly", "Yearly"}) =>
        \A i \in 1..Len(savedReceipts) :
            IsShown(i) <=>
                savedReceipts[i].transaction_date.day
                    >= FirstDay(activeFilter, LocalDay(renderedAt))

----------------------------------------------------------------------------
(* Properties of the panels *)

(* C13: at most one getSpendingAnalysis call is outstanding at any time:    *)
(* neither the Get Insights button nor the Enter key starts a second call   *)
(* while one is awaiting its response.                                      *)
C13_OneAnalysisOutstanding == Len(aiPending) <= 1

(* C14: at most one sync request is outstanding at any time, and while a    *)
(* fetch is in flight syncStatus is not idle, in every interleaving.        *)
C14_OneSyncOutstanding ==
    /\ syncFetches <= 1
    /\ syncFetches > 0 => syncStatus # "idle"

(* C23: a failed sync resets the status to idle, and no step of that       *)
(* attempt shows synced; once idle, the status stays idle until the next    *)
(* click on the sync button.                                                *)
C23_IdleUntilNextClick ==
    [][ /\ lastOp'.name = "syncFailed" => syncStatus' = "idle"
        /\ (syncStatus = "idle" /\ syncStatus' # "idle") => lastOp'.name = "syncClick" ]_vars

----------------------------------------------------------------------------
(* Properties of the exports *)

(* the text of a free-text value: that of '' when the value is absent *)
ValueText(s) == IF Present(s) THEN Chars(s) ELSE <<>>

(* C16: a PDF request under a selector other than All produces no file,     *)
(* shows the explanatory notice and leaves the saved list, the selector and *)
(* the error state unchanged; under All the PDF is produced.                *)
C16_PdfOnlyUnderAll ==
    [][ lastOp'.name = "pdfClick" =>
          IF activeFilter # "All"
          THEN /\ lastExport' = lastExport
               /\ lastOp'.notice = NoticeText
               /\ UNCHANGED <<savedReceipts, activeFilter, error>>
          ELSE lastExport'.kind = "pdf" ]_vars

(* C17 as stated: the All view shows Missing Purpose for a record exactly   *)
(* when its purpose is absent (null, undefined or empty), and the purpose   *)
(* cell of its row of the PDF is 'N/A' exactly when its purpose is absent.  *)
C17_FlaggedIffAbsent ==
    /\ (pc = "ready" /\ activeFilter = "All") =>
          \A i \in 1..Len(savedReceipts) :
             MissingPurposeBadge(savedReceipts[i]) <=> ~Present(savedReceipts[i].purpose)
    /\ lastExport.kind = "pdf" =>
          \A i \in 1..Len(lastExport.list) :
             lastExport.body[i][4] = "N/A" <=> ~Present(lastExport.list[i].purpose)

(* C17 amended: the All view shows Missing Purpose for a record exactly     *)
(* when its purpose is absent; the PDF has one row per record and then the  *)
(* TOTAL row, and the purpose cell of a record's row is 'N/A', and the row  *)
(* flagged, exactly when the purpose is absent or is itself the text 'N/A'; *)
(* otherwise the cell shows the purpose.                                    *)
C17_FlaggedIfAbsentOrNA ==
    /\ (pc = "ready" /\ activeFilter = "All") =>
          \A i \in 1..Len(savedReceipts) :
             MissingPurposeBadge(savedReceipts[i]) <=> ~Present(savedReceipts[i].purpose)
    /\ lastExport.kind = "pdf" =>
          /\ Len(lastExport.body) = Len(lastExport.list) + 1
          /\ \A i \in 1..Len(lastExport.list) :
                LET purpose == lastExport.list[i].purpose
                    flagged == ~Present(purpose) \/ purpose = "N/A"
                IN  /\ lastExport.body[i][4] = "N/A" <=> flagged
                    /\ i \in lastExport.flagged <=> flagged
                    /\ ~flagged => lastExport.body[i][4] = purpose
          /\ Len(lastExport.list) + 1 \notin lastExport.flagged

(* a PDF was made of a list with a record without purpose, which is         *)
(* flagged, and a record with one, which is not                             *)
C17_Witness ==
    /\ lastExport.kind = "pdf"
    /\ \E i, j \in 1..Len(lastExport.list) :
          /\ ~Present(lastExport.list[i].purpose)
          /\ i \in lastExport.flagged
          /\ lastExport.list[j].purpose = "Client visit"
          /\ j \notin lastExport.flagged

(* C18: the CSV of the All view is the six-column header and then one row   *)
(* per saved record in display order, each of six fields; read back with    *)
(* the standard CSV quoting, the name, counterparty and purpose of a row    *)
(* are the record's own, whatever the free text.                            *)
C18_CsvAllReadsBack ==
    (lastExport.kind = "csv" /\ lastExport.filter = "All") =>
        LET rows == ParseCsv(Downloaded(lastExport.href))
            list == lastExport.list
        IN  /\ Len(rows) = Len(list) + 1
            /\ rows[1] = <<<<"Date">>, <<"Transaction">>, <<"Amount">>, <<"Category">>,
                           <<"Client/Prospect">>, <<"Purpose">>>>
            /\ \A i \in 1..Len(list) :
                  /\ Len(rows[i + 1]) = 6
                  /\ rows[i + 1][1] = DateField(list[i].transaction_date)
                  /\ rows[i + 1][2] = ValueText(list[i].transaction_name)
                  /\ rows[i + 1][3] = AmountField(list[i].total_amount)
                  /\ rows[i + 1][5] = ValueText(list[i].client_or_prospect)
                  /\ rows[i + 1][6] = ValueText(list[i].purpose)

(* the lines of a text, without the empty line after a closing line feed *)
Lines(text) ==
    LET parts == Split(text, LineFeed)
    IN  IF parts[Len(parts)] = <<>> THEN SubSeq(parts, 1, Len(parts) - 1) ELSE parts

(* C19: under every selector other than All the CSV is a two-column table:  *)
(* the header line and every data line are exactly two comma-separated      *)
(* fields, the header names the period, and there is one data line per      *)
(* pair of the summary.                                                     *)
C19_CsvSummaryTwoColumns ==
    (lastExport.kind = "csv" /\ lastExport.filter # "All") =>
        LET lines == Lines(Downloaded(lastExport.href))
            pairs == FilteredData(lastExport.list, lastExport.filter, lastExport.computedAt)
        IN  /\ Len(lines) = Len(pairs) + 1
            /\ \A k \in 1..Len(lines) : Len(Split(lines[k], Comma)) = 2
            /\ Split(lines[1], Comma)[1] = <<"Category">>
            /\ \A k \in 1..Len(pairs) :
                  Split(lines[k + 1], Comma) =
                      <<Chars(pairs[k].category), <<ToString(pairs[k].total)>>>>

(* C20: a CSV export changes neither the saved list, the storage entry nor  *)
(* the selector, and its content is that of the previous export whenever    *)
(* that one was of the same list, under the same selector, at the same      *)
(* clock reading.                                                           *)
C20_ExportDeterministic ==
    [][ lastOp'.name = "downloadCsv" =>
          /\ UNCHANGED <<savedReceipts, storage, activeFilter>>
          /\ (/\ lastExport.kind = "csv"
              /\ lastExport.list = savedReceipts
              /\ lastExport.filter = activeFilter
              /\ lastExport.at = now) => lastExport'.href = lastExport.href ]_vars

(* C26: whenever a summary is displayed or exported it is the summary and  *)
(* the period title of the window the clock determines at that moment, also *)
(* after the clock has crossed a window boundary with the saved list and    *)
(* the selector unchanged.                                                  *)
C26_SummaryFollowsClock ==
    /\ (pc = "ready" /\ activeFilter # "All") =>
          /\ FilteredData(savedReceipts, activeFilter, renderedAt)
               = FilteredData(savedReceipts, activeFilter, now)
          /\ periodTitle(activeFilter, renderedAt) = periodTitle(activeFilter, now)
    /\ (lastOp.name = "downloadCsv" /\ lastExport.filter # "All") =>
          lastExport.href =
              CsvHref(lastExport.filter,
                      FilteredData(lastExport.list, lastExport.filter, lastExport.at),
                      periodTitle(lastExport.filter, lastExport.at))

----------------------------------------------------------------------------
(* Properties of the table of the analysis request *)

(* the table a request is to carry: the header line, then one line per    *)
(* record in list order, its six cells joined by commas, an absent text     *)
(* cell being 'N/A' and the amount cell being amountCell of the amount      *)
ExpectedTable(list, amountCell(_)) ==
    <<"Date", Comma, "Transaction", Comma, "Amount", Comma, "Category", Comma,
      "Client/Prospect", Comma, "Purpose", LineFeed>>
    \o Concat([i \in 1..Len(list) |->
                 LET cell(v) == IF Present(v) THEN Chars(v) ELSE <<"N/A">>
                 IN  (IF PresentDate(list[i].transaction_date)
                      THEN <<IsoString(list[i].transaction_date.day)>> ELSE <<"N/A">>)
                     \o <<Comma>> \o cell(list[i].transaction_name)
                     \o <<Comma>> \o amountCell(list[i].total_amount)
                     \o <<Comma>> \o cell(list[i].category)
                     \o <<Comma>> \o cell(list[i].client_or_prospect)
                     \o <<Comma>> \o cell(list[i].purpose)
                     \o <<LineFeed>>],
              Len(list))

=============================================================================
